---- MODULE Spec2Model ----
(***************************************************************************)
(* A model of pytorch_compute_capabilities_pip.py: the registry queries,   *)
(* the filename and version parsing, the cuobjdump output parsing and the  *)
(* orchestration in main.                                                  *)
(*                                                                         *)
(* Text is modelled as a sequence of one-character strings, so that        *)
(* split, strip, lower, substring tests and comparisons are computed the   *)
(* way Python computes them.                                               *)
(***************************************************************************)
EXTENDS Integers, Sequences, FiniteSets, TLC

\* One call of one function: its name, argument and return value.
VARIABLES call, arg, ret, returned

\* A run of main: its position, its local variables, the temporary
\* directories that exist, the download requests made, the operator's
\* answer and the file table_pip.md.
VARIABLES pc, versions, vi, version_wheel_counts, wheels, wi, version_results,
          all_results, tempDirs, made, requested, answer, table_file

\* History of the run: the orchestrator state an interrupt arrived in, the
\* artifacts whose download, extraction or inspection failed, and the calls
\* of get_wheel_download_links made so far (the loop that made the call, the
\* version asked for, the urls of the wheels returned).
VARIABLES interruptedIn, failed, fetches

fnVars == <<call, arg, ret, returned>>

mainVars ==
  <<pc, versions, vi, version_wheel_counts, wheels, wi, version_results,
    all_results, tempDirs, made, requested, answer, table_file,
    interruptedIn, failed, fetches>>

vars == <<fnVars, mainVars>>

-----------------------------------------------------------------------------
(* Python str primitives *)

\* The printable ASCII characters in code-point order (32..126); the double
\* quote, the backslash and the backtick, which no text of the model holds, are named.
Printable ==
  <<" ","!","dquote","#","$","%","&","'","(",")","*","+",",","-",".","/","0","1","2","3","4","5","6","7","8","9",":",";","<","=",">","?","@","A","B","C","D","E","F","G","H","I","J","K","L","M","N","O","P","Q","R","S","T","U","V","W","X","Y","Z","[","backslash","]","^","_","backtick","a","b","c","d","e","f","g","h","i","j","k","l","m","n","o","p","q","r","s","t","u","v","w","x","y","z","{","|","}","~">>

\* ord(c) for a printable character.
Ord(c) == 31 + (CHOOSE i \in 1..Len(Printable) : Printable[i] = c)

IsDigit(c) == Ord(c) >= 48 /\ Ord(c) <= 57

IsLowerLetter(c) == Ord(c) >= 97 /\ Ord(c) <= 122

IsUpperLetter(c) == Ord(c) >= 65 /\ Ord(c) <= 90

\* str.lower() on one character.
LowerChar(c) == IF IsUpperLetter(c) THEN Printable[Ord(c) + 32 - 31] ELSE c

\* str.lower()
Lower(s) == [i \in 1..Len(s) |-> LowerChar(s[i])]

\* str.strip(): leading and trailing whitespace removed.
RECURSIVE LStrip(_)
LStrip(s) == IF s # <<>> /\ Head(s) = " " THEN LStrip(Tail(s)) ELSE s

RECURSIVE RStrip(_)
RStrip(s) ==
  IF s # <<>> /\ s[Len(s)] = " " THEN RStrip(SubSeq(s, 1, Len(s) - 1)) ELSE s

Strip(s) == RStrip(LStrip(s))

\* sub in s
Contains(s, sub) ==
  \E i \in 1..(Len(s) - Len(sub) + 1) : SubSeq(s, i, i + Len(sub) - 1) = sub

\* s.startswith(prefix)
StartsWith(s, prefix) ==
  Len(s) >= Len(prefix) /\ SubSeq(s, 1, Len(prefix)) = prefix

\* s.split(sep) for a one-character separator: never empty, keeps empty parts.
RECURSIVE SplitFrom(_, _, _)
SplitFrom(s, sep, cur) ==
  IF s = <<>> THEN <<cur>>
  ELSE IF Head(s) = sep THEN <<cur>> \o SplitFrom(Tail(s), sep, <<>>)
  ELSE SplitFrom(Tail(s), sep, Append(cur, Head(s)))

Split(s, sep) == SplitFrom(s, sep, <<>>)

\* sep.join(parts)
RECURSIVE Join(_, _)
Join(parts, sep) ==
  IF parts = <<>> THEN <<>>
  ELSE IF Len(parts) = 1 THEN parts[1]
  ELSE parts[1] \o sep \o Join(Tail(parts), sep)

\* int(s) succeeds on a non-empty run of decimal digits (the only accepted
\* form over the characters the model's version strings are built from).
IsInt(s) == s # <<>> /\ \A i \in 1..Len(s) : IsDigit(s[i])

RECURSIVE IntOf(_)
IntOf(s) ==
  IF s = <<>> THEN 0 ELSE 10 * IntOf(SubSeq(s, 1, Len(s) - 1)) + (Ord(s[Len(s)]) - 48)

\* a < b for two str values (code-point order, a proper prefix is smaller).
RECURSIVE StrLess(_, _)
StrLess(a, b) ==
  IF b = <<>> THEN FALSE
  ELSE IF a = <<>> THEN TRUE
  ELSE IF Head(a) = Head(b) THEN StrLess(Tail(a), Tail(b))
  ELSE Ord(Head(a)) < Ord(Head(b))

\* a < b for two lists of int.
RECURSIVE IntListLess(_, _)
IntListLess(a, b) ==
  IF b = <<>> THEN FALSE
  ELSE IF a = <<>> THEN TRUE
  ELSE IF Head(a) = Head(b) THEN IntListLess(Tail(a), Tail(b))
  ELSE Head(a) < Head(b)

\* x < y for two sort keys: str, list of int, or a tuple of two lists of int
\* (Python compares tuples and lists element by element).
KeyLess(kind, x, y) ==
  CASE kind = "str" -> StrLess(x, y)
    [] kind = "ints" -> IntListLess(x, y)
    [] kind = "ints_ints" ->
         IntListLess(x[1], y[1]) \/ (x[1] = y[1] /\ IntListLess(x[2], y[2]))

\* list.sort / sorted over items [key, val]: a stable sort, ascending, or
\* descending with reverse (equal keys keep their input order either way).
RECURSIVE InsertStable(_, _, _, _)
InsertStable(sorted, x, kind, reverse) ==
  IF sorted = <<>> THEN <<x>>
  ELSE IF (IF reverse THEN KeyLess(kind, Head(sorted).key, x.key)
                      ELSE KeyLess(kind, x.key, Head(sorted).key))
       THEN <<x>> \o sorted
       ELSE <<Head(sorted)>> \o InsertStable(Tail(sorted), x, kind, reverse)

RECURSIVE StableSort(_, _, _)
StableSort(items, kind, reverse) ==
  IF items = <<>> THEN <<>>
  ELSE InsertStable(StableSort(SubSeq(items, 1, Len(items) - 1), kind, reverse),
                    items[Len(items)], kind, reverse)

\* The values of sorted items.
Vals(items) == [i \in 1..Len(items) |-> items[i].val]

\* The elements of a sequence.
Range(s) == {s[i] : i \in 1..Len(s)}

-----------------------------------------------------------------------------
(* extract_python_version_from_filename *)

unknown == <<"u","n","k","n","o","w","n">>

cp == <<"c","p">>

\* extract_python_version_from_filename accepting a tag with one character
\* after "cp".
extract_python_version_short_tag(filename) ==
  LET parts == Split(filename, "-") IN
  IF Len(parts) >= 3 /\ StartsWith(parts[3], cp) /\ Len(parts[3]) >= 3
  THEN <<parts[3][3]>> \o <<".">> \o SubSeq(parts[3], 4, Len(parts[3]))
  ELSE unknown

extract_python_version_from_filename(filename) ==
  LET parts == Split(filename, "-") IN
  IF Len(parts) >= 3
  THEN LET python_tag == parts[3] IN
       IF StartsWith(python_tag, cp)
       THEN LET version_num == SubSeq(python_tag, 3, Len(python_tag)) IN
            IF Len(version_num) >= 2
            THEN <<version_num[1]>> \o <<".">> \o Tail(version_num)
            ELSE unknown
       ELSE unknown
  ELSE unknown

-----------------------------------------------------------------------------
(* get_wheel_download_links *)

bdist_wheel == <<"b","d","i","s","t","_","w","h","e","e","l">>

sdist == <<"s","d","i","s","t">>

manylinux_2_28_x86_64 == <<"m","a","n","y","l","i","n","u","x","_","2","_","2","8","_","x","8","6","_","6","4">>

\* A file_info of package_info["urls"] is [has |-> the keys it carries,
\* packagetype, filename, url, size]; reading a key it does not carry raises
\* KeyError.  The loop reads packagetype of every entry, filename of every
\* bdist_wheel, and url and size of every entry it keeps.
file_info_raises(file_info) ==
  \/ "packagetype" \notin file_info.has
  \/ /\ file_info.packagetype = bdist_wheel
     /\ \/ "filename" \notin file_info.has
        \/ /\ Contains(file_info.filename, manylinux_2_28_x86_64)
           /\ {"url", "size"} \ file_info.has # {}

\* The test of the loop body: a wheel for the target platform.
is_target_wheel(file_info) ==
  /\ file_info.packagetype = bdist_wheel
  /\ Contains(file_info.filename, manylinux_2_28_x86_64)

make_wheel_info(file_info) ==
  [filename |-> file_info.filename,
   url |-> file_info.url,
   size |-> file_info.size,
   python_version |-> extract_python_version_from_filename(file_info.filename),
   platform_tag |-> manylinux_2_28_x86_64]

\* sort_wheels without the sort.
sort_wheels_unsorted(wheel_list) == wheel_list

\* wheels.sort(key=lambda x: x["python_version"])
sort_wheels(wheel_list) ==
  Vals(StableSort([i \in 1..Len(wheel_list) |->
                     [key |-> wheel_list[i].python_version, val |-> wheel_list[i]]],
                  "str", FALSE))

\* package_info is [ok |-> FALSE] when get_pypi_package_info raises a
\* RequestException, and [ok |-> TRUE, urls |-> the file list] otherwise.
get_wheel_download_links(package_info) ==
  IF ~package_info.ok THEN <<>>
  ELSE IF \E f \in Range(package_info.urls) : file_info_raises(f) THEN <<>>
  ELSE LET kept == SelectSeq(package_info.urls, is_target_wheel) IN
       sort_wheels([i \in 1..Len(kept) |-> make_wheel_info(kept[i])])

-----------------------------------------------------------------------------
(* get_cuda_architectures *)

S_arch == <<"a","r","c","h">>

S_sm == <<"s","m","_">>

\* [line.strip() for line in lines if needle in line.lower()]
RECURSIVE lines_containing(_, _)
lines_containing(lines, needle) ==
  IF lines = <<>> THEN <<>>
  ELSE IF Contains(Lower(Head(lines)), needle)
       THEN <<Strip(Head(lines))>> \o lines_containing(Tail(lines), needle)
       ELSE lines_containing(Tail(lines), needle)

\* list(set(lines)) in some order: each distinct element once.
RECURSIVE distinct_elements(_)
distinct_elements(lines) ==
  IF lines = <<>> THEN <<>>
  ELSE LET rest == distinct_elements(SubSeq(lines, 1, Len(lines) - 1)) IN
       IF lines[Len(lines)] \in Range(rest) THEN rest
       ELSE Append(rest, lines[Len(lines)])

\* sorted(set(lines)) for a list of str.
sorted_set(lines) ==
  LET distinct == distinct_elements(lines) IN
  Vals(StableSort([i \in 1..Len(distinct) |->
                     [key |-> distinct[i], val |-> distinct[i]]],
                  "str", FALSE))

\* The number of sm_ lines the function prints (for line in sm_lines[:10]).
sm_print_limit == 10

\* parse_cuobjdump returning only the sm_ lines it prints.
parse_cuobjdump_first10(stdout) ==
  LET arch_lines == lines_containing(stdout, S_arch) IN
  IF arch_lines # <<>> THEN sorted_set(arch_lines)
  ELSE LET sm_lines == lines_containing(stdout, S_sm) IN
       SubSeq(sm_lines, 1, IF Len(sm_lines) < sm_print_limit
                           THEN Len(sm_lines) ELSE sm_print_limit)

\* The parse of the captured stdout (its lines, as split("\n") gives them).
parse_cuobjdump(stdout) ==
  LET arch_lines == lines_containing(stdout, S_arch) IN
  IF arch_lines # <<>> THEN sorted_set(arch_lines)
  ELSE LET sm_lines == lines_containing(stdout, S_sm) IN
       IF sm_lines # <<>> THEN sm_lines ELSE <<>>

\* inspection is what the extracted tree and the subprocess give:
\* [lib |-> libtorch_cuda.so exists, exit_ok |-> cuobjdump exited 0,
\*  stdout |-> the lines of its output].
get_cuda_architectures(inspection) ==
  IF ~inspection.lib THEN <<>>
  ELSE IF ~inspection.exit_ok THEN <<>>
  ELSE parse_cuobjdump(inspection.stdout)

-----------------------------------------------------------------------------
(* analyze_all_wheels: the body of the loop *)

\* The end (exclusive) of the run of characters satisfying Test from i on.
RECURSIVE RunEnd(_, _, _)
RunEnd(s, i, digits) ==
  IF i <= Len(s) /\ (IF digits THEN IsDigit(s[i]) ELSE IsLowerLetter(s[i]))
  THEN RunEnd(s, i + 1, digits) ELSE i

\* re.search(r"sm_\d+[a-z]*", arch): the leftmost match, greedy, or <<>>
\* when there is none.
re_search_sm(arch) ==
  LET starts == {i \in 1..(Len(arch) - 3) :
                   /\ SubSeq(arch, i, i + 2) = S_sm
                   /\ IsDigit(arch[i + 3])}
  IN IF starts = {} THEN <<>>
     ELSE LET i == CHOOSE k \in starts : \A m \in starts : k <= m
              e == RunEnd(arch, RunEnd(arch, i + 3, TRUE), FALSE)
          IN SubSeq(arch, i, e - 1)

RECURSIVE clean_arch_list(_)
clean_arch_list(archs) ==
  IF archs = <<>> THEN <<>>
  ELSE LET arch == Head(archs)
           match == IF Contains(arch, S_sm) THEN re_search_sm(arch) ELSE <<>>
       IN (IF match # <<>> THEN <<match>> ELSE <<>>) \o clean_arch_list(Tail(archs))

\* cuda_architectures without sorted(set(...)).
cuda_architectures_unsorted(archs) == clean_arch_list(archs)

\* sorted(set(clean_archs))
cuda_architectures(archs) == sorted_set(clean_arch_list(archs))

\* outcome is what the environment does to one wheel:
\* [download |-> download_wheel returned, extract |-> extract_wheel returned,
\*  inspection |-> as for get_cuda_architectures].  A download or an
\* extraction that raises is caught by the except branch.
analyze_wheel(wheel, package_version, outcome) ==
  IF outcome.download /\ outcome.extract
  THEN [wheel_info |-> wheel,
        cuda_architectures |->
          cuda_architectures(get_cuda_architectures(outcome.inspection)),
        package_version |-> package_version]
  ELSE [wheel_info |-> wheel,
        cuda_architectures |-> <<>>,
        package_version |-> package_version]

-----------------------------------------------------------------------------
(* generate_comprehensive_pip_table *)

table_header == <<"|"," ","p","a","c","k","a","g","e"," ","|"," ","a","r","c","h","i","t","e","c","t","u","r","e","s"," ","|">>

table_separator == <<"|","-","-","-","-","-","-","-","-","-","|","-","-","-","-","-","-","-","-","-","-","-","-","-","-","-","|">>

\* [int(x) for x in text.split(".")] raises ValueError unless every part is
\* an int.
int_parts_raises(text) == \E p \in Range(Split(text, ".")) : ~IsInt(p)

int_parts(text) ==
  LET parts == Split(text, ".") IN [i \in 1..Len(parts) |-> IntOf(parts[i])]

sort_key_raises(result) ==
  \/ int_parts_raises(result.package_version)
  \/ int_parts_raises(result.wheel_info.python_version)

\* ([-x for x in version_parts], python_parts)
sort_key(result) ==
  LET version_parts == int_parts(result.package_version)
      python_parts == int_parts(result.wheel_info.python_version)
  IN <<[i \in 1..Len(version_parts) |-> 0 - version_parts[i]], python_parts>>

\* f"| {package_name} | {arch_str} |"
table_row(result) ==
  <<"|", " ">> \o result.wheel_info.filename \o <<" ", "|", " ">>
    \o Join(result.cuda_architectures, <<",", " ">>) \o <<" ", "|">>

\* The table as its lines (the text is their join with "\n"), or
\* [raised |-> TRUE] when sorted() propagates the ValueError of sort_key.
generate_comprehensive_pip_table(results) ==
  IF \E r \in Range(results) : sort_key_raises(r)
  THEN [raised |-> TRUE]
  ELSE LET sorted_results ==
             Vals(StableSort([i \in 1..Len(results) |->
                                [key |-> sort_key(results[i]),
                                 val |-> results[i]]],
                             "ints_ints", FALSE))
       IN [raised |-> FALSE,
           lines |-> <<table_header, table_separator>>
                       \o [i \in 1..Len(sorted_results) |->
                             table_row(sorted_results[i])]]

-----------------------------------------------------------------------------
(* get_all_pytorch_2x_versions *)

\* The markers of a pre-release version.
markers == <<<<"r","c">>, <<"d","e","v">>, <<"a">>, <<"b">>>>

\* version_key(v) raises ValueError unless every dotted part is an int.
version_key_raises(v) == \E p \in Range(Split(v, ".")) : ~IsInt(p)

version_key(v) ==
  LET parts == Split(v, ".") IN [i \in 1..Len(parts) |-> IntOf(parts[i])]

\* The filter of the loop over all_versions.
is_pytorch_2x_release(version) ==
  /\ StartsWith(version, <<"2", ".">>)
  /\ ~\E m \in Range(markers) : Contains(version, m)

\* package_info is [ok |-> FALSE] when get_pypi_package_info raises, and
\* [ok |-> TRUE, releases |-> the keys of package_info["releases"]] otherwise.
get_all_pytorch_2x_versions(package_info) ==
  IF ~package_info.ok THEN <<>>
  ELSE LET all_versions == package_info.releases
           pytorch_2x_versions == SelectSeq(all_versions, is_pytorch_2x_release)
       IN IF \E v \in Range(pytorch_2x_versions) : version_key_raises(v)
          THEN <<>>
          ELSE Vals(StableSort(
                 [i \in 1..Len(pytorch_2x_versions) |->
                    [key |-> version_key(pytorch_2x_versions[i]),
                     val |-> pytorch_2x_versions[i]]],
                 "ints", TRUE))

-----------------------------------------------------------------------------
(* The inputs of the function checks *)

V_2_9_0 == <<"2",".","9",".","0">>

V_2_10_0 == <<"2",".","1","0",".","0">>

V_2_1 == <<"2",".","1">>

V_2_1_0rc1 == <<"2",".","1",".","0","r","c","1">>

V_2_2_0dev == <<"2",".","2",".","0","d","e","v">>

V_2_0b1 == <<"2",".","0","b","1">>

V_1_13_0 == <<"1",".","1","3",".","0">>

V_20_1 == <<"2","0",".","1">>

V_2_0_post1 == <<"2",".","0",".","p","o","s","t","1">>

\* Version strings a release index can hold: finals, pre-releases, another
\* major version, and a part that is no number.
VersionPool == {V_2_9_0, V_2_10_0, V_2_1, V_2_1_0rc1, V_2_2_0dev, V_2_0b1, V_1_13_0, V_20_1, V_2_0_post1}

MaxReleases == 3

\* The sequences without repetition of at most n elements of S.
RECURSIVE DistinctSeqs(_, _)
DistinctSeqs(S, n) ==
  IF n = 0 THEN {<<>>}
  ELSE LET shorter == DistinctSeqs(S, n - 1) IN
       shorter \cup UNION {{Append(q, x) : x \in S \ Range(q)} :
                           q \in {r \in shorter : Len(r) = n - 1}}

\* The responses of the index to the unpinned query: an error, or the keys
\* of the releases mapping in the order of the document.
IndexResponses ==
  {[ok |-> FALSE]} \cup
  {[ok |-> TRUE, releases |-> r] : r \in DistinctSeqs(VersionPool, MaxReleases)}

\* Segments of wheel filenames.
torch == <<"t","o","r","c","h">>

S_2_8_0 == <<"2",".","8",".","0">>

S_build == <<"1">>

S_none == <<"n","o","n","e">>

S_whl == <<"m","a","n","y","l","i","n","u","x","_","2","_","2","8","_","x","8","6","_","6","4",".","w","h","l">>

S_aarch64 == <<"m","a","n","y","l","i","n","u","x","_","2","_","2","8","_","a","a","r","c","h","6","4",".","w","h","l">>

dash == <<"-">>

T_cp313 == <<"c","p","3","1","3">>

T_cp39 == <<"c","p","3","9">>

T_cp310 == <<"c","p","3","1","0">>

T_cp3 == <<"c","p","3">>

T_cp == <<"c","p">>

T_py3 == <<"p","y","3">>

T_cp3x == <<"c","p","3","x">>

T_CP39 == <<"C","P","3","9">>

T_pp310 == <<"p","p","3","1","0">>

\* Third segments: compiled-interpreter tags of two and three digits, tags
\* too short, of another interpreter, in capitals, and with a letter.
TagPool == {T_cp313, T_cp39, T_cp310, T_cp3, T_cp, T_py3, T_cp3x, T_CP39, T_pp310}

\* The segments before and after the tag: the scheme's package and version,
\* fewer, and a build tag more; the scheme's abi and platform, fewer, more.
PrefixPool == {<<>>, <<torch>>, <<torch, S_2_8_0>>, <<torch, S_2_8_0, S_build>>}

SuffixPool == {<<>>, <<S_none>>, <<S_none, S_whl>>, <<S_none, S_whl, S_build>>}

Filenames ==
  {Join(pre \o <<tag>> \o suf, dash) :
     pre \in PrefixPool, tag \in TagPool, suf \in SuffixPool}

WheelName(tag, platform) == Join(<<torch, S_2_8_0, tag, tag, platform>>, dash)

\* file_info entries of a pinned response.  url and size are opaque.
F_cp39 ==
  [has |-> {"packagetype", "filename", "url", "size"}, packagetype |-> bdist_wheel,
   filename |-> WheelName(T_cp39, S_whl), url |-> "url_cp39", size |-> 850]

F_cp310 ==
  [has |-> {"packagetype", "filename", "url", "size"}, packagetype |-> bdist_wheel,
   filename |-> WheelName(T_cp310, S_whl), url |-> "url_cp310", size |-> 851]

F_py3 ==
  [has |-> {"packagetype", "filename", "url", "size"}, packagetype |-> bdist_wheel,
   filename |-> WheelName(T_py3, S_whl), url |-> "url_py3", size |-> 852]

F_aarch64 ==
  [has |-> {"packagetype", "filename", "url", "size"}, packagetype |-> bdist_wheel,
   filename |-> WheelName(T_cp313, S_aarch64), url |-> "url_aarch64", size |-> 853]

F_sdist ==
  [has |-> {"packagetype", "filename", "url"}, packagetype |-> sdist,
   filename |-> WheelName(T_cp313, S_whl), url |-> "url_sdist", size |-> 0]

F_nosize ==
  [has |-> {"packagetype", "filename", "url"}, packagetype |-> bdist_wheel,
   filename |-> WheelName(T_cp313, S_whl), url |-> "url_nosize", size |-> 0]

FilePool == {F_cp39, F_cp310, F_py3, F_aarch64, F_sdist, F_nosize}

MaxFiles == 3

\* The responses of the index to a pinned query.
PinnedResponses ==
  {[ok |-> FALSE]} \cup
  {[ok |-> TRUE, urls |-> u] : u \in DistinctSeqs(FilePool, MaxFiles)}

L_Arch_sm_80 == <<"A","r","c","h"," ","="," ","s","m","_","8","0">>

L_arch_sm_90a == <<" ","a","r","c","h"," ","="," ","s","m","_","9","0","a"," ">>

L_noise == <<"r","a","n","d","o","m"," ","n","o","i","s","e">>

L_march == <<"m","a","r","c","h","=","n","a","t","i","v","e">>

L_sm_70 == <<" "," ","s","m","_","7","0">>

L_SM_75 == <<"S","M","_","7","5">>

L_sm_two == <<"s","m","_","8","6"," ","s","m","_","8","0">>

L_sm_x == <<"s","m","_","x">>

L_empty == <<>>

\* Lines of cuobjdump output: architecture lines, a line of noise, an
\* "arch" line without a token, sm_ lines with blanks, in capitals, with
\* two tokens and with no digits, and the empty line.
LinePool == {L_Arch_sm_80, L_arch_sm_90a, L_noise, L_march, L_sm_70, L_SM_75, L_sm_two, L_sm_x, L_empty}

MaxBase == 1

MaxRepeat == 11

\* All sequences of at most n elements of S.
RECURSIVE SeqsUpTo(_, _)
SeqsUpTo(S, n) ==
  IF n = 0 THEN {<<>>}
  ELSE LET shorter == SeqsUpTo(S, n - 1) IN
       shorter \cup {Append(q, x) : q \in {r \in shorter : Len(r) = n - 1}, x \in S}

Repeat(x, n) == [i \in 1..n |-> x]

\* Outputs of cuobjdump as lists of lines: a few lines, then one line many
\* times over (the tool prints one block per embedded image).  The text ""
\* splits into the single line "".
Stdouts ==
  {IF b \o Repeat(x, n) = <<>> THEN <<L_empty>> ELSE b \o Repeat(x, n) :
     b \in SeqsUpTo(LinePool, MaxBase), x \in LinePool, n \in 0..MaxRepeat}

Inspections ==
  {[lib |-> FALSE, exit_ok |-> FALSE, stdout |-> <<L_empty>>],
   [lib |-> TRUE, exit_ok |-> FALSE, stdout |-> <<L_empty>>]}
  \cup {[lib |-> TRUE, exit_ok |-> TRUE, stdout |-> o] : o \in Stdouts}

\* What can happen to one wheel.
Outcomes ==
  {[download |-> FALSE, extract |-> FALSE,
    inspection |-> [lib |-> FALSE, exit_ok |-> FALSE, stdout |-> <<L_empty>>]],
   [download |-> TRUE, extract |-> FALSE,
    inspection |-> [lib |-> FALSE, exit_ok |-> FALSE, stdout |-> <<L_empty>>]]}
  \cup {[download |-> TRUE, extract |-> TRUE, inspection |-> i] : i \in Inspections}

A_wheel == make_wheel_info(F_cp39)

-----------------------------------------------------------------------------
(* main *)

S_y == <<"y">>

S_yes == <<"y", "e", "s">>

\* accepts_default_no with the empty answer taken as yes.
accepts_default_yes(confirm) == confirm \in {S_y, S_yes, <<>>}

\* confirm in ["y", "yes"]
accepts_default_no(confirm) == confirm \in {S_y, S_yes}

\* input(...).strip().lower()
normalise_answer(text) == Lower(Strip(text))

\* tempdir_cleanup leaving the directory behind.
tempdir_cleanup_never(dirs, d) == dirs

\* TemporaryDirectory.__exit__: the directory and all it holds is removed,
\* whether the block ended normally or by an exception.
tempdir_cleanup(dirs, d) == dirs \ {d}

\* The positions of main inside the with block of analyze_all_wheels.
InTempDir == {"DOWNLOAD", "EXTRACT", "INSPECT", "EXIT_TEMPDIR"}

Running ==
  {"ENUMERATE_VERSIONS", "COUNT_WHEELS", "CONFIRM", "PROCESS_VERSION", "MKTEMP",
   "RENDER"} \cup InTempDir

Terminal == {"DONE", "ABORTED", "RETURNED", "CRASHED"}

\* The orchestrator state a position belongs to.
OrchState(p) ==
  IF p \in InTempDir \cup {"MKTEMP"} THEN "PROCESS_VERSION" ELSE p

\* interrupt_outcome with no handler anywhere.
interrupt_outcome_unhandled(p) == "CRASHED"

\* Where a KeyboardInterrupt raised at position p leaves main: the try
\* around input() catches it; nothing else does (except Exception does not
\* catch KeyboardInterrupt), and it leaves main as an uncaught exception.
interrupt_outcome(p) == IF p = "CONFIRM" THEN "ABORTED" ELSE "CRASHED"

V_2_10_0_cp39 ==
  [has |-> {"packagetype", "filename", "url", "size"}, packagetype |-> bdist_wheel,
   filename |-> Join(<<torch, V_2_10_0, T_cp39, T_cp39, S_whl>>, dash),
   url |-> "2.10.0/cp39", size |-> 850]

V_2_10_0_cp310 ==
  [has |-> {"packagetype", "filename", "url", "size"}, packagetype |-> bdist_wheel,
   filename |-> Join(<<torch, V_2_10_0, T_cp310, T_cp310, S_whl>>, dash),
   url |-> "2.10.0/cp310", size |-> 851]

V_2_10_0_aarch64 ==
  [has |-> {"packagetype", "filename", "url", "size"}, packagetype |-> bdist_wheel,
   filename |-> Join(<<torch, V_2_10_0, T_cp313, T_cp313, S_aarch64>>, dash),
   url |-> "2.10.0/aarch64", size |-> 700]

V_2_9_0_cp313 ==
  [has |-> {"packagetype", "filename", "url", "size"}, packagetype |-> bdist_wheel,
   filename |-> Join(<<torch, V_2_9_0, T_cp313, T_cp313, S_whl>>, dash),
   url |-> "2.9.0/cp313", size |-> 840]

V_2_9_0_py3 ==
  [has |-> {"packagetype", "filename", "url", "size"}, packagetype |-> bdist_wheel,
   filename |-> Join(<<torch, V_2_9_0, T_py3, S_none, S_whl>>, dash),
   url |-> "2.9.0/py3", size |-> 830]

\* What the index answers during a run: to the unpinned query an error, a
\* release list with two final 2.x versions, or one with none; to a pinned
\* query an error or a file list of the version (the index may change
\* between two queries).
RunIndexResponses ==
  {[ok |-> FALSE],
   [ok |-> TRUE, releases |-> <<V_2_9_0, V_2_1_0rc1, V_2_10_0, V_1_13_0>>],
   [ok |-> TRUE, releases |-> <<V_1_13_0>>]}

RunPinnedResponses(version) ==
  {[ok |-> FALSE]} \cup
  (IF version = V_2_10_0
   THEN {[ok |-> TRUE, urls |-> <<V_2_10_0_cp39, V_2_10_0_aarch64, V_2_10_0_cp310>>]}
   ELSE {[ok |-> TRUE, urls |-> <<V_2_9_0_cp313>>],
         [ok |-> TRUE, urls |-> <<V_2_9_0_py3>>]})

\* What the operator types at the prompt.
Answers ==
  {<<"y">>, <<"Y", "E", "S">>, <<" ", "Y", "e", "s", " ">>, <<"n">>, <<>>,
   <<"y", "e">>, <<"y", "e", "s", "!">>}

\* What cuobjdump does during a run.
RunInspections ==
  {[lib |-> FALSE, exit_ok |-> FALSE, stdout |-> <<L_empty>>],
   [lib |-> TRUE, exit_ok |-> FALSE, stdout |-> <<L_empty>>],
   [lib |-> TRUE, exit_ok |-> TRUE,
    stdout |-> <<L_arch_sm_90a, L_noise, L_Arch_sm_80, L_Arch_sm_80, L_empty>>]}

NoInspection == [lib |-> FALSE, exit_ok |-> FALSE, stdout |-> <<L_empty>>]

NoFile == [exists |-> FALSE, lines |-> <<>>]

InitMain ==
  /\ pc = "ENUMERATE_VERSIONS"
  /\ versions = <<>>
  /\ vi = 1
  /\ version_wheel_counts = <<>>
  /\ wheels = <<>>
  /\ wi = 1
  /\ version_results = <<>>
  /\ all_results = <<>>
  /\ tempDirs = {}
  /\ made = 0
  /\ requested = <<>>
  /\ answer = [given |-> FALSE, text |-> <<>>]
  /\ table_file = NoFile
  /\ interruptedIn = "none"
  /\ failed = {}
  /\ fetches = <<>>

\* version_wheel_counts as a list of [version, count] in insertion order.
wheel_count_of(counts, version) ==
  (CHOOSE c \in Range(counts) : c.version = version).count

\* One call of get_wheel_download_links as the history keeps it.
fetch_record(loop, version, wheel_list) ==
  [loop |-> loop, version |-> version,
   urls |-> [i \in 1..Len(wheel_list) |-> wheel_list[i].url]]

\* A processing loop that consults no count and skips no version.
skips_no_version(counts, version) == FALSE

\* if wheel_count == 0: continue, on the count recorded before the prompt.
skips_version(counts, version) == wheel_count_of(counts, version) = 0

RECURSIVE sum_counts(_)
sum_counts(counts) ==
  IF counts = <<>> THEN 0 ELSE Head(counts).count + sum_counts(Tail(counts))

\* versions = get_all_pytorch_2x_versions(package); return when empty.
EnumerateVersions ==
  /\ pc = "ENUMERATE_VERSIONS"
  /\ \E response \in RunIndexResponses :
       /\ versions' = get_all_pytorch_2x_versions(response)
       /\ pc' = IF versions' = <<>> THEN "RETURNED" ELSE "COUNT_WHEELS"
  /\ UNCHANGED <<fnVars, fetches, vi, version_wheel_counts, wheels, wi, version_results,
                 all_results, tempDirs, made, requested, answer, table_file,
                 interruptedIn, failed>>

\* One round of the counting loop, and after the last the return when
\* there is nothing to process.
CountWheels ==
  /\ pc = "COUNT_WHEELS"
  /\ \E response \in RunPinnedResponses(versions[vi]) :
       /\ wheels' = get_wheel_download_links(response)
       /\ version_wheel_counts' =
            Append(version_wheel_counts,
                   [version |-> versions[vi], count |-> Len(wheels')])
       /\ fetches' = Append(fetches, fetch_record("count", versions[vi], wheels'))
  /\ IF vi < Len(versions)
     THEN vi' = vi + 1 /\ pc' = pc
     ELSE /\ vi' = 1
          /\ pc' = IF sum_counts(version_wheel_counts') = 0
                   THEN "RETURNED" ELSE "CONFIRM"
  /\ UNCHANGED <<fnVars, versions, wi, version_results, all_results, tempDirs, made,
                 requested, answer, table_file, interruptedIn, failed>>

\* The prompt, answered.
Confirm ==
  /\ pc = "CONFIRM"
  /\ \E text \in Answers :
       /\ answer' = [given |-> TRUE, text |-> text]
       /\ pc' = IF accepts_default_no(normalise_answer(text))
                THEN "PROCESS_VERSION" ELSE "ABORTED"
  /\ UNCHANGED <<fnVars, fetches, versions, vi, version_wheel_counts, wheels, wi,
                 version_results, all_results, tempDirs, made, requested,
                 table_file, interruptedIn, failed>>

AfterVersion(i) == IF i < Len(versions) THEN "PROCESS_VERSION" ELSE "RENDER"

\* The head of a round of the processing loop: a version counted at zero is
\* skipped; otherwise its wheels are fetched again and analysed.
ProcessVersion ==
  /\ pc = "PROCESS_VERSION"
  /\ IF skips_version(version_wheel_counts, versions[vi])
     THEN /\ vi' = vi + 1
          /\ pc' = AfterVersion(vi)
          /\ UNCHANGED <<wheels, wi, version_results, fetches>>
     ELSE \E response \in RunPinnedResponses(versions[vi]) :
            /\ wheels' = get_wheel_download_links(response)
            /\ fetches' =
                 Append(fetches, fetch_record("process", versions[vi], wheels'))
            /\ version_results' = <<>>
            /\ wi' = 1
            /\ IF wheels' = <<>>
               THEN vi' = vi + 1 /\ pc' = AfterVersion(vi)
               ELSE vi' = vi /\ pc' = "MKTEMP"
  /\ UNCHANGED <<fnVars, versions, version_wheel_counts, all_results, tempDirs, made,
                 requested, answer, table_file, interruptedIn, failed>>

\* with tempfile.TemporaryDirectory() as temp_dir
EnterTempDir ==
  /\ pc = "MKTEMP"
  /\ made' = made + 1
  /\ tempDirs' = tempDirs \cup {made + 1}
  /\ pc' = "DOWNLOAD"
  /\ UNCHANGED <<fnVars, fetches, versions, vi, version_wheel_counts, wheels, wi,
                 version_results, all_results, requested, answer, table_file,
                 interruptedIn, failed>>

Artifact == <<versions[vi], wheels[wi].filename>>

\* download_wheel returns or raises.
DownloadWheel ==
  /\ pc = "DOWNLOAD"
  /\ requested' = Append(requested, wheels[wi].url)
  /\ \/ /\ pc' = "EXTRACT"
        /\ UNCHANGED <<version_results, failed>>
     \/ /\ version_results' =
             Append(version_results,
                    analyze_wheel(wheels[wi], versions[vi],
                                  [download |-> FALSE, extract |-> FALSE,
                                   inspection |-> NoInspection]))
        /\ failed' = failed \cup {Artifact}
        /\ pc' = "EXIT_TEMPDIR"
  /\ UNCHANGED <<fnVars, fetches, versions, vi, version_wheel_counts, wheels, wi, all_results,
                 tempDirs, made, answer, table_file, interruptedIn>>

\* extract_wheel returns or raises.
ExtractWheel ==
  /\ pc = "EXTRACT"
  /\ \/ /\ pc' = "INSPECT"
        /\ UNCHANGED <<version_results, failed>>
     \/ /\ version_results' =
             Append(version_results,
                    analyze_wheel(wheels[wi], versions[vi],
                                  [download |-> TRUE, extract |-> FALSE,
                                   inspection |-> NoInspection]))
        /\ failed' = failed \cup {Artifact}
        /\ pc' = "EXIT_TEMPDIR"
  /\ UNCHANGED <<fnVars, fetches, versions, vi, version_wheel_counts, wheels, wi, all_results,
                 tempDirs, made, requested, answer, table_file, interruptedIn>>

\* get_cuda_architectures, the cleaning of its lines and results.append.
InspectWheel ==
  /\ pc = "INSPECT"
  /\ \E inspection \in RunInspections :
       /\ version_results' =
            Append(version_results,
                   analyze_wheel(wheels[wi], versions[vi],
                                 [download |-> TRUE, extract |-> TRUE,
                                  inspection |-> inspection]))
       /\ failed' = IF inspection.lib /\ inspection.exit_ok
                    THEN failed ELSE failed \cup {Artifact}
  /\ pc' = "EXIT_TEMPDIR"
  /\ UNCHANGED <<fnVars, fetches, versions, vi, version_wheel_counts, wheels, wi, all_results,
                 tempDirs, made, requested, answer, table_file, interruptedIn>>

\* The end of the with block, then the next wheel, or the return of
\* analyze_all_wheels and all_results.extend(version_results).
ExitTempDir ==
  /\ pc = "EXIT_TEMPDIR"
  /\ tempDirs' = tempdir_cleanup(tempDirs, made)
  /\ IF wi < Len(wheels)
     THEN /\ wi' = wi + 1
          /\ pc' = "MKTEMP"
          /\ UNCHANGED <<vi, all_results>>
     ELSE /\ all_results' = all_results \o version_results
          /\ vi' = vi + 1
          /\ pc' = AfterVersion(vi)
          /\ wi' = wi
  /\ UNCHANGED <<fnVars, fetches, versions, version_wheel_counts, wheels, version_results, made,
                 requested, answer, table_file, interruptedIn, failed>>

\* The table is generated and saved when there are results.
Render ==
  /\ pc = "RENDER"
  /\ IF all_results = <<>>
     THEN pc' = "DONE" /\ table_file' = table_file
     ELSE LET table_content == generate_comprehensive_pip_table(all_results) IN
          IF table_content.raised
          THEN pc' = "CRASHED" /\ table_file' = table_file
          ELSE /\ pc' = "DONE"
               /\ table_file' = [exists |-> TRUE, lines |-> table_content.lines]
  /\ UNCHANGED <<fnVars, fetches, versions, vi, version_wheel_counts, wheels, wi,
                 version_results, all_results, tempDirs, made, requested,
                 answer, interruptedIn, failed>>

\* The operator presses Ctrl-C.
Interrupt ==
  /\ pc \in Running
  /\ interruptedIn' = OrchState(pc)
  /\ pc' = interrupt_outcome(pc)
  /\ tempDirs' = IF pc \in InTempDir THEN tempdir_cleanup(tempDirs, made)
                 ELSE tempDirs
  /\ UNCHANGED <<fnVars, fetches, versions, vi, version_wheel_counts, wheels, wi,
                 version_results, all_results, made, requested, answer,
                 table_file, failed>>

Next ==
  \/ EnumerateVersions
  \/ CountWheels
  \/ Confirm
  \/ ProcessVersion
  \/ EnterTempDir
  \/ DownloadWheel
  \/ ExtractWheel
  \/ InspectWheel
  \/ ExitTempDir
  \/ Render
  \/ Interrupt

Init == InitMain /\ call = "none" /\ arg = <<>> /\ ret = <<>> /\ returned = FALSE

Spec == Init /\ [][Next]_vars

-----------------------------------------------------------------------------
(* The function checks: one call of one function on one input *)

InitFn ==
  /\ InitMain
  /\ returned = FALSE
  /\ ret = <<>>
  /\ \/ call = "extract_python_version_from_filename" /\ arg \in Filenames
     \/ call = "get_wheel_download_links" /\ arg \in PinnedResponses
     \/ call = "get_all_pytorch_2x_versions" /\ arg \in IndexResponses
     \/ call = "get_cuda_architectures" /\ arg \in Inspections
     \/ call = "analyze_wheel" /\ arg \in Outcomes

Call_extract_python_version_from_filename ==
  /\ call = "extract_python_version_from_filename" /\ ~returned
  /\ ret' = extract_python_version_from_filename(arg)
  /\ returned' = TRUE
  /\ UNCHANGED <<call, arg, mainVars>>

Call_get_wheel_download_links ==
  /\ call = "get_wheel_download_links" /\ ~returned
  /\ ret' = get_wheel_download_links(arg)
  /\ returned' = TRUE
  /\ UNCHANGED <<call, arg, mainVars>>

Call_get_all_pytorch_2x_versions ==
  /\ call = "get_all_pytorch_2x_versions" /\ ~returned
  /\ ret' = get_all_pytorch_2x_versions(arg)
  /\ returned' = TRUE
  /\ UNCHANGED <<call, arg, mainVars>>

Call_get_cuda_architectures ==
  /\ call = "get_cuda_architectures" /\ ~returned
  /\ ret' = get_cuda_architectures(arg)
  /\ returned' = TRUE
  /\ UNCHANGED <<call, arg, mainVars>>

Call_analyze_wheel ==
  /\ call = "analyze_wheel" /\ ~returned
  /\ ret' = analyze_wheel(A_wheel, S_2_8_0, arg)
  /\ returned' = TRUE
  /\ UNCHANGED <<call, arg, mainVars>>

NextFn ==
  \/ Call_extract_python_version_from_filename
  \/ Call_get_wheel_download_links
  \/ Call_get_all_pytorch_2x_versions
  \/ Call_get_cuda_architectures
  \/ Call_analyze_wheel

SpecFn == InitFn /\ [][NextFn]_vars

-----------------------------------------------------------------------------
(* Claims about the functions, checked under SpecFn *)

Called(name) == call = name /\ returned

\* The positions of the dashes of a filename, and its n-th dash.
Dashes(s) == {i \in 1..Len(s) : s[i] = "-"}

NthDash(s, n) ==
  CHOOSE i \in Dashes(s) : Cardinality({j \in Dashes(s) : j < i}) = n - 1

SegmentCount(s) == Cardinality(Dashes(s)) + 1

\* The text between the second dash and the third (or the end).
ThirdSegment(s) ==
  SubSeq(s, NthDash(s, 2) + 1,
         IF Cardinality(Dashes(s)) >= 3 THEN NthDash(s, 3) - 1 ELSE Len(s))

\* cpMNN: "cp", a digit M, one or more digits NN.
IsCpDigits(tag) ==
  /\ Len(tag) >= 4
  /\ SubSeq(tag, 1, 2) = cp
  /\ \A i \in 3..Len(tag) : IsDigit(tag[i])

DottedVersionOfTag(tag) == <<tag[3], ".">> \o SubSeq(tag, 4, Len(tag))

\* The interpreter version of a filename: from a third segment that is "cp"
\* and at least two characters more, and "unknown" otherwise.
VersionOfFilename(filename) ==
  IF /\ SegmentCount(filename) >= 3
     /\ Len(ThirdSegment(filename)) >= 4
     /\ SubSeq(ThirdSegment(filename), 1, 2) = cp
  THEN DottedVersionOfTag(ThirdSegment(filename))
  ELSE unknown

\* C1 as stated: for every list of release versions the index returns, the
\* result holds exactly the versions that start with "2." and contain none
\* of "rc", "dev", "a", "b", in descending numeric order of their parts.
C1_ExactlyTheFinal2xVersions ==
  (Called("get_all_pytorch_2x_versions") /\ arg.ok) =>
    LET wanted == {v \in Range(arg.releases) :
                     /\ SubSeq(v, 1, 2) = <<"2", ".">>
                     /\ ~Contains(v, <<"r", "c">>)
                     /\ ~Contains(v, <<"d", "e", "v">>)
                     /\ ~Contains(v, <<"a">>)
                     /\ ~Contains(v, <<"b">>)}
    IN /\ Range(ret) = wanted
       /\ Len(ret) = Cardinality(wanted)
       /\ \A i \in 1..(Len(ret) - 1) :
            (~int_parts_raises(ret[i]) /\ ~int_parts_raises(ret[i + 1]))
              => ~IntListLess(int_parts(ret[i]), int_parts(ret[i + 1]))

\* C2 as stated: "M.NN" for a filename of five segments whose third is
\* cpMNN, "unknown" for a filename of any other shape.
C2_UnknownUnlessFiveSegments ==
  Called("extract_python_version_from_filename") =>
    IF SegmentCount(arg) = 5 /\ IsCpDigits(ThirdSegment(arg))
    THEN ret = DottedVersionOfTag(ThirdSegment(arg))
    ELSE ret = unknown

\* C2 amended: "M.NN" for a filename of at least three segments whose third
\* is "cp" followed by at least two characters (M the first, NN the rest),
\* "unknown" for every other filename.
C2_VersionFromThirdSegment ==
  Called("extract_python_version_from_filename") =>
    ret = VersionOfFilename(arg)

\* A filename of three segments only, for which "3.13" is returned.
C2_Witness ==
  /\ Called("extract_python_version_from_filename")
  /\ SegmentCount(arg) = 3
  /\ ret = <<"3", ".", "1", "3">>

AllFields == {"packagetype", "filename", "url", "size"}

\* The entries of a response the claim says are kept.
TargetEntries(response) ==
  {f \in Range(response.urls) :
     f.packagetype = bdist_wheel /\ Contains(f.filename, manylinux_2_28_x86_64)}

FileIdentity(f) == <<f.filename, f.url, f.size>>

ExactlyTheTargetEntries(response, links) ==
  /\ Len(links) = Cardinality(TargetEntries(response))
  /\ {FileIdentity(links[i]) : i \in 1..Len(links)}
       = {FileIdentity(f) : f \in TargetEntries(response)}

LinesWith(stdout, word) ==
  {i \in 1..Len(stdout) : Contains(Lower(stdout[i]), word)}

\* The trimmed lines at the given positions, in the order of the output.
RECURSIVE TrimmedAt(_, _)
TrimmedAt(stdout, positions) ==
  IF positions = {} THEN <<>>
  ELSE LET last == CHOOSE i \in positions : \A j \in positions : j <= i IN
       Append(TrimmedAt(stdout, positions \ {last}), Strip(stdout[last]))

FirstN(q, n) == SubSeq(q, 1, IF Len(q) < n THEN Len(q) ELSE n)

Inspected(name) == Called(name) /\ arg.lib /\ arg.exit_ok

\* C9 as stated: the trimmed "arch" lines if there are any; otherwise the
\* "sm_" lines, the first 10 at most; otherwise nothing.
C9_SmLinesLimitedToTen ==
  Inspected("get_cuda_architectures") =>
    IF LinesWith(arg.stdout, S_arch) # {}
    THEN Range(ret) = Range(TrimmedAt(arg.stdout, LinesWith(arg.stdout, S_arch)))
    ELSE ret = FirstN(TrimmedAt(arg.stdout, LinesWith(arg.stdout, S_sm)),
                      sm_print_limit)

\* C9 amended: the distinct trimmed "arch" lines in ascending order if
\* there are any; otherwise all the trimmed "sm_" lines in output order,
\* however many; otherwise nothing.
C9_AllSmLines ==
  Inspected("get_cuda_architectures") =>
    IF LinesWith(arg.stdout, S_arch) # {}
    THEN /\ Range(ret) = Range(TrimmedAt(arg.stdout, LinesWith(arg.stdout, S_arch)))
         /\ \A i \in 1..(Len(ret) - 1) : StrLess(ret[i], ret[i + 1])
    ELSE ret = TrimmedAt(arg.stdout, LinesWith(arg.stdout, S_sm))

\* An output without "arch" lines from which more than 10 "sm_" lines are
\* returned.
C9_Witness ==
  /\ Inspected("get_cuda_architectures")
  /\ LinesWith(arg.stdout, S_arch) = {}
  /\ Len(ret) > sm_print_limit

\* sm_<digits><optional lowercase letters>
WellFormedToken(a) ==
  /\ Len(a) >= 4
  /\ SubSeq(a, 1, 3) = S_sm
  /\ \E k \in 4..Len(a) :
       /\ \A i \in 4..k : IsDigit(a[i])
       /\ \A i \in (k + 1)..Len(a) : IsLowerLetter(a[i])

\* The line holds "sm_" followed by a digit.
HasToken(line) ==
  \E i \in 1..(Len(line) - 3) :
    SubSeq(line, i, i + 2) = S_sm /\ IsDigit(line[i + 3])

sm_80 == <<"s","m","_","8","0">>

\* The lines the inspector keeps for a wheel (none when a step failed).
KeptLines(outcome) ==
  IF outcome.download /\ outcome.extract
  THEN get_cuda_architectures(outcome.inspection) ELSE <<>>

\* C10: the architectures of a result are in strictly ascending text order
\* (so without duplicates), each is a well-formed token found in a kept
\* line, a kept line without a token contributes nothing, every kept line
\* with a token contributes one, and "Arch = sm_80" contributes sm_80.
C10_ArchitecturesCleanSortedUnique ==
  Called("analyze_wheel") =>
    LET archs == ret.cuda_architectures
        kept == KeptLines(arg)
    IN /\ \A i \in 1..(Len(archs) - 1) : StrLess(archs[i], archs[i + 1])
       /\ \A a \in Range(archs) :
            /\ WellFormedToken(a)
            /\ \E l \in Range(kept) : HasToken(l) /\ Contains(l, a)
       /\ \A l \in Range(kept) :
            HasToken(l) => \E a \in Range(archs) : Contains(l, a)
       /\ L_Arch_sm_80 \in Range(kept) => sm_80 \in Range(archs)
       /\ Range(kept) = {L_Arch_sm_80} => archs = <<sm_80>>

\* A result with two architectures taken from an output that repeats its
\* lines and holds an "arch" line without a token.
C10_Witness ==
  /\ Called("analyze_wheel")
  /\ Len(ret.cuda_architectures) = 2
  /\ Len(arg.inspection.stdout) > 3
  /\ sm_80 \in Range(ret.cuda_architectures)

-----------------------------------------------------------------------------
(* Claims about a run of main, checked under Spec *)

\* The operator answered y or yes, in any case, blanks around it ignored.
SaidYes ==
  /\ answer.given
  /\ \E word \in {S_y, S_yes} :
       LET typed == Strip(answer.text) IN
       /\ Len(typed) = Len(word)
       /\ \A i \in 1..Len(word) : LowerChar(typed[i]) = word[i]

\* Something was downloaded, extracted, inspected or written.
WorkDone ==
  \/ requested # <<>>
  \/ made > 0
  \/ tempDirs # {}
  \/ version_results # <<>>
  \/ all_results # <<>>
  \/ table_file.exists

\* C4: nothing is downloaded, extracted or inspected before the operator
\* has answered the prompt with y or yes; after any other answer the run is
\* in ABORTED with no download made and no table file written.
C4_NothingBeforeConfirmation ==
  /\ (WorkDone \/ pc \in {"PROCESS_VERSION", "MKTEMP", "RENDER"} \cup InTempDir)
       => SaidYes
  /\ (answer.given /\ ~SaidYes) => (pc = "ABORTED" /\ ~WorkDone)

\* A download requested after the answer " Yes ".
C4_Witness ==
  /\ requested # <<>>
  /\ answer.text = <<" ", "Y", "e", "s", " ">>

\* The run ended without an interrupt after the processing loop.
RanToTheEnd ==
  pc \in {"DONE", "CRASHED"} /\ interruptedIn = "none" /\ SaidYes

\* The row of an artifact with no architectures.
EmptyRow(filename) ==
  <<"|", " ">> \o filename \o <<" ", "|", " ">> \o <<" ", "|">>

\* The results of analyze_all_wheels so far: one per wheel, in the order of
\* the wheels, with no architectures for a wheel that failed.
OneResultPerWheelSoFar ==
  pc \in {"MKTEMP"} \cup InTempDir =>
    /\ Len(version_results) = (IF pc = "EXIT_TEMPDIR" THEN wi ELSE wi - 1)
    /\ \A i \in 1..Len(version_results) :
         /\ version_results[i].wheel_info = wheels[i]
         /\ version_results[i].package_version = versions[vi]
         /\ <<versions[vi], wheels[i].filename>> \in failed
              => version_results[i].cuda_architectures = <<>>

\* C5 as stated: after a failure analyze_all_wheels still gives one result
\* per wheel in order, the failed wheel's with no architectures, the later
\* wheels and versions are processed, and the final table holds a row for
\* the failed wheel with an empty architectures cell.
C5_FailedArtifactKeepsItsRow ==
  /\ OneResultPerWheelSoFar
  /\ RanToTheEnd =>
       \A a \in failed :
         /\ table_file.exists
         /\ EmptyRow(a[2]) \in Range(table_file.lines)

\* What holds of C5 in the code: the results of analyze_all_wheels, and the
\* row of a failed wheel whenever a table is written.
C5_ResultsSurviveFailures ==
  /\ OneResultPerWheelSoFar
  /\ (RanToTheEnd /\ table_file.exists) =>
       \A a \in failed : EmptyRow(a[2]) \in Range(table_file.lines)

\* r1 may stand before r2 in the table: a newer version, or the same
\* version and an interpreter version not above.
InTableOrder(r1, r2) ==
  \/ IntListLess(int_parts(r2.package_version), int_parts(r1.package_version))
  \/ /\ int_parts(r1.package_version) = int_parts(r2.package_version)
     /\ ~IntListLess(int_parts(r2.wheel_info.python_version),
                     int_parts(r1.wheel_info.python_version))

\* The lines are a table of the results: header, separator, and the rows
\* of some arrangement of the results that is in table order.
IsTableOf(lines, results) ==
  /\ Len(lines) = 2 + Len(results)
  /\ lines[1] = table_header
  /\ lines[2] = table_separator
  /\ \A r \in Range(results) : table_row(r) \in Range(lines)
  /\ \A i \in 3..(Len(lines) - 1) :
       \E r1, r2 \in Range(results) :
         /\ lines[i] = table_row(r1)
         /\ lines[i + 1] = table_row(r2)
         /\ InTableOrder(r1, r2)

\* C6 as stated: for every list of results a run produces, those with the
\* interpreter version "unknown" included, the table has a header, a
\* separator and one row per result, newest version first and within a
\* version by ascending interpreter version.
C6_TableForEveryResultList ==
  (RanToTheEnd /\ all_results # <<>>) =>
    (table_file.exists /\ IsTableOf(table_file.lines, all_results))

\* What holds of C6 in the code: the table of a result list in which every
\* interpreter version is a dotted number.
C6_TableWhenVersionsAreNumbers ==
  (/\ RanToTheEnd
   /\ all_results # <<>>
   /\ \A r \in Range(all_results) :
        ~int_parts_raises(r.wheel_info.python_version)) =>
    (pc = "DONE" /\ table_file.exists /\ IsTableOf(table_file.lines, all_results))

\* C7: at most one temporary directory exists at any time, it is the one
\* made for the wheel being processed, one is made per wheel, and none
\* exists when the next wheel begins or the run has ended, after a success
\* as after a failure.
C7_OneTempDirAtATime ==
  /\ Cardinality(tempDirs) <= 1
  /\ pc \in InTempDir => tempDirs = {made}
  /\ pc \notin InTempDir => tempDirs = {}
  /\ made \in {Len(requested), Len(requested) + 1}
  /\ pc = "DOWNLOAD" => made = Len(requested) + 1
  /\ pc \in {"EXTRACT", "INSPECT", "EXIT_TEMPDIR", "MKTEMP"} => made = Len(requested)

\* The next wheel begins after a wheel that failed, with no directory left.
C7_Witness ==
  /\ pc = "MKTEMP"
  /\ made >= 1
  /\ failed # {}
  /\ tempDirs = {}

\* C8 as stated: an interrupt in any orchestrator state is handled and
\* takes the run to ABORTED.
C8_InterruptAlwaysAborts ==
  interruptedIn # "none" => pc = "ABORTED"

\* C8 amended: an interrupt at the confirmation prompt is handled and takes
\* the run to ABORTED with nothing downloaded; an interrupt in any other
\* state is not handled: it leaves main as an uncaught exception, the
\* temporary directory of the wheel in progress removed.
C8_InterruptHandledAtPromptOnly ==
  /\ interruptedIn = "CONFIRM" => (pc = "ABORTED" /\ ~WorkDone)
  /\ interruptedIn \notin {"none", "CONFIRM"} => (pc = "CRASHED" /\ tempDirs = {})

\* An interrupt during the processing of a wheel, ending the run uncaught.
C8_Witness ==
  /\ interruptedIn = "PROCESS_VERSION"
  /\ pc = "CRASHED"
  /\ made >= 1

\* The calls of get_wheel_download_links a loop of main has made, in order.
FetchesOf(loop) == SelectSeq(fetches, LAMBDA f : f.loop = loop)

FetchedVersions(loop) ==
  [i \in 1..Len(FetchesOf(loop)) |-> FetchesOf(loop)[i].version]

RECURSIVE UrlsOf(_)
UrlsOf(history) ==
  IF history = <<>> THEN <<>> ELSE Head(history).urls \o UrlsOf(Tail(history))

\* The run is past the prompt and has not crashed.
AfterConfirmation ==
  pc \in {"PROCESS_VERSION", "RENDER", "DONE"} \cup InTempDir

\* The versions whose round of the processing loop has begun.
RoundsBegun == SubSeq(versions, 1, IF pc \in InTempDir THEN vi ELSE vi - 1)

\* The counting loop was answered with no wheel for the version.
CountedNone(version) ==
  \E i \in 1..Len(FetchesOf("count")) :
    /\ FetchesOf("count")[i].version = version
    /\ FetchesOf("count")[i].urls = <<>>

IsPrefix(s, t) == Len(s) <= Len(t) /\ s = SubSeq(t, 1, Len(s))

\* C11 as stated: after the confirmation the processing loop calls
\* get_wheel_download_links for every enumerated version it comes to,
\* whatever the counting loop recorded for it.
C11_ProcessingFetchesEveryVersion ==
  AfterConfirmation => FetchedVersions("process") = RoundsBegun

\* C11 amended: after the confirmation the processing loop makes no call of
\* get_wheel_download_links for a version the counting loop recorded with
\* zero wheels and one call of its own for every other version it comes to;
\* the downloads requested are the wheels those calls returned, in order,
\* whatever wheels the counting loop had seen.
C11_ProcessingSkipsVersionsCountedZero ==
  AfterConfirmation =>
    /\ FetchedVersions("process") =
         SelectSeq(RoundsBegun, LAMBDA v : ~CountedNone(v))
    /\ IsPrefix(requested, UrlsOf(FetchesOf("process")))
    /\ pc \notin InTempDir => requested = UrlsOf(FetchesOf("process"))

\* A finished run in which one version was counted at zero and skipped, and
\* the other was processed with a wheel the counting loop had not seen.
C11_Witness ==
  /\ pc = "DONE"
  /\ versions = <<V_2_10_0, V_2_9_0>>
  /\ CountedNone(V_2_10_0)
  /\ FetchedVersions("process") = <<V_2_9_0>>
  /\ FetchesOf("count")[2].urls = <<"2.9.0/py3">>
  /\ requested = <<"2.9.0/cp313">>

====
